---- MODULE Spec2Model ----
(***************************************************************************)
(* Model of smhi/smhi.py: SmhiParser.parameters, get_station_data and      *)
(* temperatures_parameter_2.                                               *)
(*                                                                         *)
(* Strings that the code compares or parses (station keys, parameter keys, *)
(* observation values) are sequences of one-character strings, so that     *)
(* str comparison, int() and float() are computed and not assumed.         *)
(* Times are integers in milliseconds.                                     *)
(***************************************************************************)
EXTENDS Integers, Sequences, FiniteSets, TLC

VARIABLES
    pc,            \* position of the running operation
    apiStations,   \* "station" list of the station-list response, in API order
    listFetches,   \* number of GETs of the station list
    now,           \* datetime.now(timezone.utc), ms
    stations,      \* the sorted list iterated by the loop
    idx,           \* number of stations the loop has consumed
    min_station,   \* running minimum (StationTemp)
    max_station,   \* running maximum (StationTemp)
    calls,         \* stations passed to get_station_data, in call order
    readings,      \* StationTemps returned by get_station_data in this run
    skipped,       \* keys of the stations the staleness filter skipped
    out,           \* lines printed on standard output
    log,           \* records handed to the logger
    err,           \* the exception that ended the operation, if any
    gstation,      \* get_station_data: its argument
    gresp,         \* get_station_data: the response of the detail GET
    gresult,       \* get_station_data: its outcome
    catalog,       \* parameters(): "resource" list of the response, in API order
    params         \* parameters(): the sorted list

vars == <<pc, apiStations, listFetches, now, stations, idx, min_station,
          max_station, calls, readings, skipped, out, log, err,
          gstation, gresp, gresult, catalog, params>>

tempVars == <<apiStations, listFetches, now, stations, min_station,
              max_station, calls, readings, skipped>>
getVars == <<gstation, gresp, gresult>>
paramVars == <<catalog, params>>

----------------------------------------------------------------------------
(* Bounds *)

MaxStations == 2
MaxParams == 3

(* timedelta(days=2), in ms *)
TwoDaysMs == 2 * 24 * 60 * 60 * 1000

----------------------------------------------------------------------------
(* Python values *)

Digits == <<"0", "1", "2", "3", "4", "5", "6", "7", "8", "9">>

IsDigit(c) == \E d \in 1..10 : Digits[d] = c

DigitVal(c) == (CHOOSE d \in 1..10 : Digits[d] = c) - 1

AllDigits(s) == \A k \in 1..Len(s) : IsDigit(s[k])

RECURSIVE DecVal(_)
DecVal(s) ==
    IF s = <<>> THEN 0
    ELSE 10 * DecVal(SubSeq(s, 1, Len(s) - 1)) + DigitVal(s[Len(s)])

(* str < str: comparison by code point, a proper prefix sorts first.       *)
RECURSIVE StrLess(_, _)
StrLess(a, b) ==
    IF b = <<>> THEN FALSE
    ELSE IF a = <<>> THEN TRUE
    ELSE IF Head(a) = Head(b) THEN StrLess(Tail(a), Tail(b))
    ELSE DigitVal(Head(a)) < DigitVal(Head(b))

(* int(x["key"]) for a string of decimal digits *)
PyInt(s) == DecVal(s)

(* floats: finite values are counted in tenths of a degree *)
Fin(n) == [k |-> "fin", v |-> n]
PosInf == [k |-> "inf", v |-> 1]
NegInf == [k |-> "inf", v |-> -1]
NaN == [k |-> "nan", v |-> 0]

IsFinite(x) == x.k = "fin"

(* a > b on floats: every comparison with nan is False *)
FloatGt(a, b) ==
    /\ a.k # "nan"
    /\ b.k # "nan"
    /\ \/ a = PosInf /\ b # PosInf
       \/ a.k = "fin" /\ b = NegInf
       \/ a.k = "fin" /\ b.k = "fin" /\ a.v > b.v

FloatLt(a, b) == FloatGt(b, a)

(* float(s) for a str s: [ok |-> FALSE] stands for ValueError.             *)
(* Accepted here: [sign] "inf" | [sign] "nan" | [sign] digits ["." digit]  *)
FloatBody(s) ==
    IF s = <<"i", "n", "f">> THEN [ok |-> TRUE, val |-> PosInf]
    ELSE IF s = <<"n", "a", "n">> THEN [ok |-> TRUE, val |-> NaN]
    ELSE IF s # <<>> /\ AllDigits(s)
        THEN [ok |-> TRUE, val |-> Fin(10 * DecVal(s))]
    ELSE IF /\ Len(s) >= 3
            /\ s[Len(s) - 1] = "."
            /\ AllDigits(SubSeq(s, 1, Len(s) - 2))
            /\ IsDigit(s[Len(s)])
        THEN [ok |-> TRUE,
              val |-> Fin(10 * DecVal(SubSeq(s, 1, Len(s) - 2)) + DigitVal(s[Len(s)]))]
    ELSE [ok |-> FALSE, val |-> NaN]

FloatNeg(x) ==
    IF x.k = "nan" THEN x ELSE [k |-> x.k, v |-> 0 - x.v]

PyFloat(s) ==
    IF s # <<>> /\ Head(s) = "-"
        THEN LET r == FloatBody(Tail(s)) IN [ok |-> r.ok, val |-> FloatNeg(r.val)]
    ELSE FloatBody(s)

----------------------------------------------------------------------------
(* Data of the API *)

Base == 1000 * 1000 * 1000

(* instants datetime.now() can return: on a whole second, and 300 ms later *)
Nows == {Base, Base + 300}

(* "updated" values of a station, epoch ms *)
Updateds == {Base, Base - TwoDaysMs, Base + 900 - TwoDaysMs}

StationKeys == {<<"1">>, <<"1", "0">>, <<"2">>}

StationName(key) ==
    IF key = <<"1">> THEN "station1"
    ELSE IF key = <<"1", "0">> THEN "station10"
    ELSE "station2"

(* one element of the "station" list; a field the response leaves out has  *)
(* its has-flag FALSE                                                      *)
StationRecs ==
    { [key |-> k, hasUpdated |-> TRUE, updated |-> u, hasName |-> TRUE,
       name |-> StationName(k)] : k \in StationKeys, u \in Updateds }
    \cup
    { [key |-> k, hasUpdated |-> TRUE, updated |-> Base - TwoDaysMs, hasName |-> FALSE,
       name |-> ""] : k \in StationKeys }
    \cup
    { [key |-> k, hasUpdated |-> FALSE, updated |-> 0, hasName |-> TRUE,
       name |-> StationName(k)] : k \in StationKeys }

DistinctKeys(seq) ==
    \A a, b \in 1..Len(seq) : a # b => seq[a].key # seq[b].key

SeqsUpTo(S, n) == UNION { [1..m -> S] : m \in 0..n }

StationLists == { l \in SeqsUpTo(StationRecs, MaxStations) : DistinctKeys(l) }

(* strings found in value[0].value *)
ValueStrings ==
    { <<"-", "9", "9">>, <<"1", "0", ".", "0">>, <<"i", "n", "f">>,
      <<"n", "a", "n">>, <<"a", "b", "c">> }

ValueEntries ==
    { [hasValue |-> TRUE, value |-> v] : v \in ValueStrings }
    \cup { [hasValue |-> FALSE, value |-> <<>>] }

(* "value" lists: empty, one observation, or one observation followed by   *)
(* an older one                                                            *)
OlderEntry == [hasValue |-> TRUE, value |-> <<"1", "0", ".", "0">>]

ValueLists ==
    {<<>>} \cup { <<e>> : e \in ValueEntries } \cup { <<e, OlderEntry>> : e \in ValueEntries }

DefaultBody(key) ==
    [valid |-> TRUE, hasStation |-> TRUE, hasKey |-> TRUE, key |-> key,
     hasName |-> TRUE, name |-> StationName(key),
     hasValue |-> FALSE, value |-> <<>>]

(* responses of the detail GET for station `key`: the transport fails, or  *)
(* a status arrives with a body that is JSON or not; the body may lack any *)
(* field                                                                   *)
Responses(key) ==
    { [transport |-> "error", status |-> 0, body |-> DefaultBody(key)] }
    \cup { [transport |-> "ok", status |-> 404, body |-> DefaultBody(key)] }
    \cup { [transport |-> "ok", status |-> 200,
            body |-> [DefaultBody(key) EXCEPT !.valid = FALSE]] }
    \cup { [transport |-> "ok", status |-> 200,
            body |-> [DefaultBody(key) EXCEPT !.hasStation = FALSE]] }
    \cup { [transport |-> "ok", status |-> 200,
            body |-> [DefaultBody(key) EXCEPT !.hasKey = hk, !.hasName = hn,
                                              !.hasValue = TRUE, !.value = v]] :
            hk \in BOOLEAN, hn \in BOOLEAN,
            v \in ValueLists }
    \cup { [transport |-> "ok", status |-> 200,
            body |-> [DefaultBody(key) EXCEPT !.hasKey = hk, !.hasName = hn]] :
            hk \in BOOLEAN, hn \in BOOLEAN }

----------------------------------------------------------------------------
(* StationTemp = namedtuple("StationTemp", ["key", "name", "temp", "station"]) *)
(* None is written <<>> for a key and NoStation for a station              *)

NoStation == [key |-> <<>>, name |-> ""]

StationTemp(key, name, temp, station) ==
    [key |-> key, name |-> name, temp |-> temp, station |-> station]

NoStationTemp == StationTemp(<<>>, "", NaN, NoStation)

LogRec(level, msg, name) == [level |-> level, msg |-> msg, name |-> name]

Returned(val, lg) == [kind |-> "return", val |-> val, exc |-> "", log |-> lg]
ReturnedNone(lg) == [kind |-> "none", val |-> NoStationTemp, exc |-> "", log |-> lg]
Raised(exc) == [kind |-> "raise", val |-> NoStationTemp, exc |-> exc, log |-> <<>>]
Pending == [kind |-> "pending", val |-> NoStationTemp, exc |-> "", log |-> <<>>]

(* the try block of get_station_data: float(r["value"][0]["value"])        *)
ParseTemp(body) ==
    IF ~body.hasValue THEN [ok |-> FALSE, val |-> NaN]
    ELSE IF body.value = <<>> THEN [ok |-> FALSE, val |-> NaN]
    ELSE IF ~body.value[1].hasValue THEN [ok |-> FALSE, val |-> NaN]
    ELSE PyFloat(body.value[1].value)

get_station_data(station, resp) ==
    IF resp.transport # "ok" THEN Raised("ConnectionError")
    ELSE IF resp.status # 200
        THEN ReturnedNone(<<LogRec("debug", "status", "")>>)
    ELSE IF ~resp.body.valid THEN Raised("JSONDecodeError")
    ELSE IF ~resp.body.hasStation \/ ~resp.body.hasName THEN Raised("KeyError")
    ELSE LET station_name == resp.body.name
             t == ParseTemp(resp.body)
         IN IF ~t.ok
                THEN ReturnedNone(<<LogRec("warning", "no temperature", station_name)>>)
            ELSE IF ~resp.body.hasKey THEN Raised("KeyError")
            ELSE LET station_data ==
                         StationTemp(resp.body.key, station_name, t.val,
                                     [key |-> resp.body.key, name |-> station_name])
                 IN Returned(station_data,
                             <<LogRec("info", "station", station_name)>>)

----------------------------------------------------------------------------
(* temperatures_parameter_2 *)

(* sorted(seq, key=...): a stable insertion by the `<` of the sort keys    *)
(* the sort key compared the wrong way round *)
StationKeyGreater(a, b) == StrLess(b.key, a.key)

StationKeyLess(a, b) == StrLess(a.key, b.key)

RECURSIVE InsertStation(_, _)
InsertStation(sorted, x) ==
    IF sorted = <<>> THEN <<x>>
    ELSE IF StationKeyLess(x, Head(sorted)) THEN <<x>> \o sorted
    ELSE <<Head(sorted)>> \o InsertStation(Tail(sorted), x)

RECURSIVE SortStations(_)
SortStations(seq) ==
    IF seq = <<>> THEN <<>>
    ELSE InsertStation(SortStations(SubSeq(seq, 1, Len(seq) - 1)), seq[Len(seq)])

(* datetime.fromtimestamp(updated // 1000): whole seconds, here in ms *)
FromTimestamp(updated) == (updated \div 1000) * 1000

(* the comparison of the staleness filter inverted *)
IsFresh(nowMs, updated) == nowMs - FromTimestamp(updated) < TwoDaysMs

(* update_td > timedelta(days=2) *)
IsStale(nowMs, updated) == nowMs - FromTimestamp(updated) > TwoDaysMs

(* the running maximum updated on `<` *)
NewMaxOnLess(cur, station_data) ==
    IF FloatLt(station_data.temp, cur.temp) THEN station_data ELSE cur

NewMax(cur, station_data) ==
    IF FloatGt(station_data.temp, cur.temp) THEN station_data ELSE cur

NewMin(cur, station_data) ==
    IF FloatLt(station_data.temp, cur.temp) THEN station_data ELSE cur

Abs(n) == IF n < 0 THEN 0 - n ELSE n

(* f"{temp:.1f}": sign, integer part and one fractional digit; "inf",      *)
(* "-inf" and "nan" for the values that are not finite                     *)
Format1f(temp) ==
    IF temp.k = "fin"
        THEN [text |-> "num", neg |-> temp.v < 0, whole |-> Abs(temp.v) \div 10,
              frac |-> Abs(temp.v) % 10]
    ELSE IF temp.k = "nan" THEN [text |-> "nan", neg |-> FALSE, whole |-> 0, frac |-> 0]
    ELSE [text |-> "inf", neg |-> temp.v < 0, whole |-> 0, frac |-> 0]

(* f"{label}: {name}, {temp:.1f} degrees" *)
ReportLine(label, st) == [label |-> label, name |-> st.name, temp |-> Format1f(st.temp)]

NoErr == [exc |-> "", at |-> ""]

IdleStation ==
    [key |-> <<>>, hasUpdated |-> FALSE, updated |-> 0, hasName |-> FALSE, name |-> ""]

IdleGet ==
    /\ gstation = IdleStation
    /\ gresp = [transport |-> "ok", status |-> 0,
                body |-> [DefaultBody(<<>>) EXCEPT !.name = ""]]
    /\ gresult = Pending

IdleTemp ==
    /\ apiStations = <<>>
    /\ listFetches = 0
    /\ now = 0
    /\ stations = <<>>
    /\ min_station = NoStationTemp
    /\ max_station = NoStationTemp
    /\ calls = <<>>
    /\ readings = {}
    /\ skipped = {}

Init ==
    /\ pc = "start"
    /\ apiStations \in StationLists
    /\ listFetches = 0
    /\ now = 0
    /\ stations = <<>>
    /\ idx = 0
    /\ min_station = NoStationTemp
    /\ max_station = NoStationTemp
    /\ calls = <<>>
    /\ readings = {}
    /\ skipped = {}
    /\ out = <<>>
    /\ log = <<>>
    /\ err = NoErr
    /\ IdleGet
    /\ catalog = <<>>
    /\ params = <<>>

(* lines 98-112: the station list is fetched, parsed and sorted, `now` is  *)
(* sampled and the two accumulators are initialised                        *)
FetchStations ==
    /\ pc = "start"
    /\ listFetches' = listFetches + 1
    /\ stations' = SortStations(apiStations)
    /\ \E n \in Nows : now' = n
    /\ min_station' = StationTemp(<<>>, "N/A", PosInf, NoStation)
    /\ max_station' = StationTemp(<<>>, "N/A", NegInf, NoStation)
    /\ pc' = "loop"
    /\ UNCHANGED <<apiStations, idx, calls, readings, skipped, out, log, err>>
    /\ UNCHANGED <<getVars, paramVars>>

(* lines 98-100: requests.get raises, the body is not JSON, or it has no   *)
(* "station" member                                                        *)
FetchStationsFails ==
    /\ pc = "start"
    /\ listFetches' = listFetches + 1
    /\ \E e \in {"ConnectionError", "JSONDecodeError", "KeyError"} :
           err' = [exc |-> e, at |-> "list"]
    /\ pc' = "raised"
    /\ UNCHANGED <<apiStations, now, stations, idx, min_station, max_station,
                   calls, readings, skipped, out, log>>
    /\ UNCHANGED <<getVars, paramVars>>

(* lines 114-125 for a station the staleness filter skips *)
SkipStale ==
    /\ pc = "loop"
    /\ idx < Len(stations)
    /\ LET station == stations[idx + 1] IN
        /\ station.hasUpdated
        /\ IsStale(now, station.updated)
        /\ IF station.hasName
              THEN /\ log' = Append(log, LogRec("debug", "ignored", station.name))
                   /\ skipped' = skipped \cup {station.key}
                   /\ idx' = idx + 1
                   /\ UNCHANGED <<pc, err>>
              ELSE /\ pc' = "raised"
                   /\ err' = [exc |-> "KeyError", at |-> "station"]
                   /\ UNCHANGED <<log, skipped, idx>>
    /\ UNCHANGED <<apiStations, listFetches, now, stations, min_station,
                   max_station, calls, readings, out>>
    /\ UNCHANGED <<getVars, paramVars>>

(* line 114 for a station without "updated" *)
MissingUpdated ==
    /\ pc = "loop"
    /\ idx < Len(stations)
    /\ ~stations[idx + 1].hasUpdated
    /\ pc' = "raised"
    /\ err' = [exc |-> "KeyError", at |-> "station"]
    /\ UNCHANGED <<tempVars, idx, out, log>>
    /\ UNCHANGED <<getVars, paramVars>>

(* lines 114-134 for a station that passes the staleness filter *)
ProcessStation ==
    /\ pc = "loop"
    /\ idx < Len(stations)
    /\ LET station == stations[idx + 1] IN
        /\ station.hasUpdated
        /\ ~IsStale(now, station.updated)
        /\ calls' = Append(calls, station.key)
        /\ \E resp \in Responses(station.key) :
            LET r == get_station_data(station, resp) IN
            /\ log' = log \o r.log
            /\ IF r.kind = "raise"
                  THEN /\ pc' = "raised"
                       /\ err' = [exc |-> r.exc, at |-> "station"]
                       /\ UNCHANGED <<idx, readings, min_station, max_station>>
               ELSE IF r.kind = "none"
                  THEN /\ idx' = idx + 1
                       /\ UNCHANGED <<pc, err, readings, min_station, max_station>>
               ELSE /\ idx' = idx + 1
                    /\ readings' = readings \cup {r.val}
                    /\ max_station' = NewMax(max_station, r.val)
                    /\ min_station' = NewMin(min_station, r.val)
                    /\ UNCHANGED <<pc, err>>
    /\ UNCHANGED <<apiStations, listFetches, now, stations, skipped, out>>
    /\ UNCHANGED <<getVars, paramVars>>

(* lines 136-137, after the loop *)
Report ==
    /\ pc = "loop"
    /\ idx = Len(stations)
    /\ out' = <<ReportLine("Highest temperature", max_station),
                ReportLine("Lowest temperature", min_station)>>
    /\ pc' = "done"
    /\ UNCHANGED <<tempVars, idx, log, err>>
    /\ UNCHANGED <<getVars, paramVars>>

Next ==
    \/ FetchStations
    \/ FetchStationsFails
    \/ SkipStale
    \/ MissingUpdated
    \/ ProcessStation
    \/ Report

Spec == Init /\ [][Next]_vars

----------------------------------------------------------------------------
(* get_station_data on its own: one call on one response *)

InitGet ==
    /\ pc = "get"
    /\ gstation \in StationRecs
    /\ gresp \in Responses(gstation.key)
    /\ gresult = Pending
    /\ IdleTemp
    /\ idx = 0
    /\ out = <<>>
    /\ log = <<>>
    /\ err = NoErr
    /\ catalog = <<>>
    /\ params = <<>>

GetStationData ==
    /\ pc = "get"
    /\ LET r == get_station_data(gstation, gresp) IN
        /\ gresult' = r
        /\ log' = log \o r.log
        /\ pc' = IF r.kind = "raise" THEN "raised" ELSE "get_done"
        /\ err' = IF r.kind = "raise" THEN [exc |-> r.exc, at |-> "station"] ELSE err
    /\ UNCHANGED <<gstation, gresp, tempVars, idx, out, paramVars>>

NextGet == GetStationData

SpecGet == InitGet /\ [][NextGet]_vars

----------------------------------------------------------------------------
(* parameters() *)

ParamKeys == {<<"1">>, <<"2">>, <<"1", "0">>, <<"2", "0">>}

ParamTitle(key) ==
    IF key = <<"1">> THEN "param1"
    ELSE IF key = <<"2">> THEN "param2"
    ELSE IF key = <<"1", "0">> THEN "param10"
    ELSE "param20"

ParamRecs == { [key |-> k, title |-> ParamTitle(k), summary |-> "summary"] : k \in ParamKeys }

Catalogs == { l \in SeqsUpTo(ParamRecs, MaxParams) : DistinctKeys(l) }

(* the keys compared as strings, without int() *)
ParamKeyLessAsStr(a, b) == StrLess(a.key, b.key)

(* sorted(..., key=lambda x: int(x["key"])) *)
ParamKeyLess(a, b) == PyInt(a.key) < PyInt(b.key)

RECURSIVE InsertParam(_, _)
InsertParam(sorted, x) ==
    IF sorted = <<>> THEN <<x>>
    ELSE IF ParamKeyLess(x, Head(sorted)) THEN <<x>> \o sorted
    ELSE <<Head(sorted)>> \o InsertParam(Tail(sorted), x)

RECURSIVE SortParams(_)
SortParams(seq) ==
    IF seq = <<>> THEN <<>>
    ELSE InsertParam(SortParams(SubSeq(seq, 1, Len(seq) - 1)), seq[Len(seq)])

(* f"{key:>3}": right-aligned in a field of three characters *)
RECURSIVE PadLeft(_, _)
PadLeft(str, width) ==
    IF Len(str) >= width THEN str ELSE PadLeft(<<" ">> \o str, width)

(* f"{param['key']:>3}, {param['title']} ({param['summary']})" *)
ParamLine(param) ==
    [key |-> PadLeft(param.key, 3), title |-> param.title, summary |-> param.summary]

InitParams ==
    /\ pc = "params"
    /\ catalog \in Catalogs
    /\ params = <<>>
    /\ idx = 0
    /\ out = <<>>
    /\ log = <<>>
    /\ err = NoErr
    /\ IdleTemp
    /\ IdleGet

(* lines 48-50 *)
ParametersFetch ==
    /\ pc = "params"
    /\ params' = SortParams(catalog)
    /\ pc' = "params_loop"
    /\ UNCHANGED <<catalog, idx, out, log, err, tempVars, getVars>>

(* lines 48-50: requests.get raises, the body is not JSON, or it has no    *)
(* "resource" member                                                       *)
ParametersFetchFails ==
    /\ pc = "params"
    /\ \E e \in {"ConnectionError", "JSONDecodeError", "KeyError"} :
           err' = [exc |-> e, at |-> "catalog"]
    /\ pc' = "raised"
    /\ UNCHANGED <<paramVars, idx, out, log, tempVars, getVars>>

(* lines 52-54: one iteration of the loop *)
ParametersPrint ==
    /\ pc = "params_loop"
    /\ idx < Len(params)
    /\ out' = Append(out, ParamLine(params[idx + 1]))
    /\ idx' = idx + 1
    /\ UNCHANGED <<pc, paramVars, log, err, tempVars, getVars>>

ParametersReturn ==
    /\ pc = "params_loop"
    /\ idx = Len(params)
    /\ pc' = "params_done"
    /\ UNCHANGED <<paramVars, idx, out, log, err, tempVars, getVars>>

NextParams ==
    \/ ParametersFetch
    \/ ParametersFetchFails
    \/ ParametersPrint
    \/ ParametersReturn

SpecParams == InitParams /\ [][NextParams]_vars

----------------------------------------------------------------------------
(* Properties *)

Range(seq) == { seq[k] : k \in 1..Len(seq) }

IsNumber(temp) == temp.k # "nan"

(* the real age of a station's last update, to the millisecond *)
Age(station) == now - station.updated

Warmest(r) == IsNumber(r.temp) /\ \A q \in readings : ~FloatGt(q.temp, r.temp)
Coldest(r) == IsNumber(r.temp) /\ \A q \in readings : ~FloatLt(q.temp, r.temp)

(* C1: when the scan has ended and two eligible readings have distinct     *)
(* temperatures, the "Highest temperature" line shows an eligible reading  *)
(* that no reading exceeds and the "Lowest temperature" line one that no   *)
(* reading is below, whatever the order of the station list was.           *)
C1_HighestAndLowest ==
    (pc = "done" /\ \E a, b \in readings : FloatLt(a.temp, b.temp)) =>
        /\ \E hi \in readings :
              Warmest(hi) /\ out[1] = ReportLine("Highest temperature", hi)
        /\ \E lo \in readings :
              Coldest(lo) /\ out[2] = ReportLine("Lowest temperature", lo)

(* two readings with distinct temperatures, from a list the API returned   *)
(* in another order than the sorted one                                    *)
C1_Witness ==
    /\ pc = "done"
    /\ \E a, b \in readings : FloatLt(a.temp, b.temp)
    /\ stations # apiStations
    /\ out[1].name # out[2].name

(* C2: when exactly one station is eligible, both report lines name it,    *)
(* whatever temperature its StationTemp carries.                           *)
C2_SingleStationBothLines ==
    (pc = "done" /\ Cardinality(readings) = 1) =>
        \A r \in readings : out[1].name = r.name /\ out[2].name = r.name

Tied(t) == { r \in readings : r.temp = t }

FirstKey(rs) == CHOOSE r \in rs : \A q \in rs : q = r \/ StrLess(r.key, q.key)

(* C3: when two or more eligible stations share the maximum (minimum)      *)
(* temperature, the Highest (Lowest) line names the one of them with the   *)
(* lexicographically smallest key.                                         *)
C3_TieBreakSmallestKey ==
    pc = "done" =>
        \A r \in readings :
            /\ (Warmest(r) /\ Cardinality(Tied(r.temp)) >= 2) =>
                   out[1].name = FirstKey(Tied(r.temp)).name
            /\ (Coldest(r) /\ Cardinality(Tied(r.temp)) >= 2) =>
                   out[2].name = FirstKey(Tied(r.temp)).name

(* C4: a station updated more than 2 days before `now` is never passed to  *)
(* get_station_data, is never the running maximum or minimum, and is on    *)
(* neither output line.                                                    *)
C4_StaleExcluded ==
    pc # "start" =>
        \A s \in Range(apiStations) :
            (s.hasUpdated /\ Age(s) > TwoDaysMs) =>
                /\ s.key \notin Range(calls)
                /\ max_station.key # s.key
                /\ min_station.key # s.key
                /\ \A k \in 1..Len(out) : out[k].name # StationName(s.key)

(* a finished scan that skipped a stale station and read another one *)
C4_Witness ==
    /\ pc = "done"
    /\ readings # {}
    /\ \E s \in Range(apiStations) :
          s.hasUpdated /\ Age(s) > TwoDaysMs /\ s.key \in skipped

AfterGet == pc \in {"get_done", "raised"}

NoTemperature(body) ==
    \/ ~body.hasValue
    \/ body.value = <<>>
    \/ ~body.value[1].hasValue
    \/ ~PyFloat(body.value[1].value).ok

NameInWarning(body) ==
    IF body.hasStation /\ body.hasName THEN body.name ELSE "unknown"

(* C5: get_station_data returns None without raising when the status is    *)
(* not 200, and when the status is 200 and the body has no usable          *)
(* temperature; in the second case a warning names the station, or says    *)
(* "unknown" when the response has no station name.                        *)
C5_AbsenceWithoutRaising ==
    (AfterGet /\ gresp.transport = "ok") =>
        /\ gresp.status # 200 => gresult.kind = "none"
        /\ (gresp.status = 200 /\ gresp.body.valid /\ NoTemperature(gresp.body)) =>
              /\ gresult.kind = "none"
              /\ \E k \in 1..Len(log) :
                    log[k].level = "warning" /\ log[k].name = NameInWarning(gresp.body)

(* C6: every StationTemp get_station_data returns carries a finite         *)
(* temperature.                                                            *)
C6_FiniteTemperature ==
    (AfterGet /\ gresult.kind = "return") => IsFinite(gresult.val.temp)

(* C7: once the station list has been fetched, no failure of a single      *)
(* station ends temperatures_parameter_2: only the fetch of the list       *)
(* raises.                                                                 *)
C7_OnlyListFetchAborts ==
    pc = "raised" => err.at = "list"

RECURSIVE StripLeft(_)
StripLeft(str) ==
    IF str # <<>> /\ Head(str) = " " THEN StripLeft(Tail(str)) ELSE str

LineKey(line) == PyInt(StripLeft(line.key))

(* C8: parameters() prints its lines in strictly ascending order of the    *)
(* integer value of the key and, when it returns, has printed exactly one  *)
(* line for each entry of the catalog.                                     *)
C8_ParametersAscending ==
    /\ \A a, b \in 1..Len(out) : a < b => LineKey(out[a]) < LineKey(out[b])
    /\ pc = "params_done" =>
          /\ Len(out) = Len(catalog)
          /\ \A c \in 1..Len(catalog) :
                Cardinality({ k \in 1..Len(out) : out[k] = ParamLine(catalog[c]) }) = 1

(* a catalog that lists "10" before "2", printed *)
C8_Witness ==
    /\ pc = "params_done"
    /\ \E a, b \in 1..Len(catalog) :
          a < b /\ catalog[a].key = <<"1", "0">> /\ catalog[b].key = <<"2">>
    /\ Len(out) >= 2

(* C9: a station is skipped as stale exactly when its age exceeds 2 days;  *)
(* every station whose age is at most 2 days is passed to                  *)
(* get_station_data.                                                       *)
C9_ExactStaleness ==
    \A k \in 1..idx :
        (pc \in {"loop", "done", "raised"} /\ stations[k].hasUpdated) =>
            /\ stations[k].key \in skipped <=> Age(stations[k]) > TwoDaysMs
            /\ Age(stations[k]) <= TwoDaysMs => stations[k].key \in Range(calls)

PassesFilter(s) == s.hasUpdated /\ ~IsStale(now, s.updated)

====
